---- MODULE Spec2Model ----
(***************************************************************************)
(* Model of backend/whisper_service.py: the repetition collapser           *)
(* _dedupe_repetitions, the invoker transcribe_audio and the command-line  *)
(* entry point.  Texts are sequences of one-character strings.             *)
(***************************************************************************)
EXTENDS Integers, Sequences, FiniteSets, TLC

VARIABLES text, max_repeats, out, out2, dpc,
          argv, environ, fs, pc, audio_path, model_size, language,
          stderr, stdout, exitCode, loadCalls, transcribeCalls, exc, result

dvars == <<text, max_repeats, out, out2, dpc>>
mvars == <<argv, environ, fs, pc, audio_path, model_size, language,
           stderr, stdout, exitCode, loadCalls, transcribeCalls, exc, result>>
vars == <<text, max_repeats, out, out2, dpc,
          argv, environ, fs, pc, audio_path, model_size, language,
          stderr, stdout, exitCode, loadCalls, transcribeCalls, exc, result>>

(* ------------------------------ bounds --------------------------------- *)
MaxLen == 6
MaxRepeats == 2

(* --------------------------- characters -------------------------------- *)
Terminators == {".", "!", "?"}
Whitespace == {" ", "\t"}
Alphabet == {"a", "A", " ", ".", "!"}

HiHiHIBye == <<"H", "i", ".", " ", "h", "i", ".", " ", "H", "I", ".", " ", "B", "y", "e", ".">>
HiLowerBye == <<"H", "i", ".", " ", "h", "i", ".", " ", "B", "y", "e", ".">>
HiHiBye == <<"H", "i", ".", " ", "H", "i", ".", " ", "B", "y", "e", ".">>
Hello3 == <<"H", "e", "l", "l", "o", " ", "w", "o", "r", "l", "d", ".", " ", "H", "e", "l", "l", "o", " ", "w", "o", "r", "l", "d", ".", " ", "H", "e", "l", "l", "o", " ", "w", "o", "r", "l", "d", ".", " ", "G", "o", "o", "d", "b", "y", "e", ".">>
Hello2 == <<"H", "e", "l", "l", "o", " ", "w", "o", "r", "l", "d", ".", " ", "H", "e", "l", "l", "o", " ", "w", "o", "r", "l", "d", ".", " ", "G", "o", "o", "d", "b", "y", "e", ".">>
HiDots == <<"H", "i", ".", ".">>
HiTabs == <<" ", "H", "i", ".", " ", "\t", "H", "I", ".", " ", " ", "h", "i">>

HiStray == <<"H", "i", ".", " ", "h", "i", ".", ".", " ", "H", "I", ".", " ", ".", " ", "o", "k">>

ExampleTexts == {HiHiHIBye, Hello3, HiDots, HiTabs, HiStray}

BoundedTexts == UNION {[1..n -> Alphabet] : n \in 0..MaxLen}

Min(a, b) == IF a < b THEN a ELSE b

(* ------------------------- string primitives --------------------------- *)
\* str.lower(), per character
LowerChar(c) ==
  CASE c = "A" -> "a"
    [] c = "B" -> "b"
    [] c = "G" -> "g"
    [] c = "H" -> "h"
    [] c = "I" -> "i"
    [] OTHER -> c

Lower(s) == [i \in 1..Len(s) |-> LowerChar(s[i])]

RECURSIVE LStrip(_)
LStrip(s) ==
  IF s # <<>> /\ s[1] \in Whitespace THEN LStrip(Tail(s)) ELSE s

RECURSIVE RStrip(_)
RStrip(s) ==
  IF s # <<>> /\ s[Len(s)] \in Whitespace
    THEN RStrip(SubSeq(s, 1, Len(s) - 1))
    ELSE s

\* str.strip()
Strip(s) == RStrip(LStrip(s))

\* ' '.join(list)
RECURSIVE Join(_)
Join(list) ==
  IF list = <<>> THEN <<>>
  ELSE IF Len(list) = 1 THEN list[1]
  ELSE list[1] \o <<" ">> \o Join(Tail(list))

\* re.split(r'([\.!?])', text): bodies at odd places, terminators at even
RECURSIVE SplitFrom(_, _, _)
SplitFrom(t, i, cur) ==
  IF i > Len(t) THEN <<cur>>
  ELSE IF t[i] \in Terminators
    THEN <<cur, <<t[i]>>>> \o SplitFrom(t, i + 1, <<>>)
    ELSE SplitFrom(t, i + 1, Append(cur, t[i]))

ReSplit(t) == SplitFrom(t, 1, <<>>)

(* ----------------------- _dedupe_repetitions --------------------------- *)
\* sentences.append({'text': full, 'count': 1})
NewRunZero(full) == [text |-> full, count |-> 0]

NewRun(full) == [text |-> full, count |-> 1]

\* sentences[-1]['count'] += 1
ExtendRunLastCasing(run, full) == [text |-> full, count |-> run.count + 1]

ExtendRun(run, full) == [run EXCEPT !.count = @ + 1]

\* sentences[-1]['text'].lower() == full.lower()
SameSentenceCaseSensitive(a, b) == a = b

SameSentence(a, b) == Lower(a) = Lower(b)

\* the loop over range(0, len(parts), 2); i is the 1-based place of the body
RECURSIVE ScanParts(_, _, _)
ScanParts(parts, i, sentences) ==
  IF i > Len(parts) THEN sentences
  ELSE
    LET sent == Strip(parts[i])
        punct == IF i + 1 <= Len(parts) THEN parts[i + 1] ELSE <<>>
        full == Strip(sent \o punct)
        n == Len(sentences)
    IN IF sent = <<>> THEN ScanParts(parts, i + 2, sentences)
       ELSE IF n > 0 /\ SameSentence(sentences[n].text, full)
         THEN ScanParts(parts, i + 2,
                        [sentences EXCEPT ![n] = ExtendRun(sentences[n], full)])
         ELSE ScanParts(parts, i + 2, Append(sentences, NewRun(full)))

\* repeats = min(entry['count'], max_repeats)
RepeatsNoCap(count, m) == count

Repeats(count, m) == Min(count, m)

\* [entry['text']] * repeats  (an empty list when repeats <= 0)
Times(s, n) == [k \in 1..n |-> s]

RECURSIVE Cleaned(_, _)
Cleaned(sentences, m) ==
  IF sentences = <<>> THEN <<>>
  ELSE Times(sentences[1].text, Repeats(sentences[1].count, m))
       \o Cleaned(Tail(sentences), m)

_dedupe_repetitions(t, m) ==
  Strip(Join(Cleaned(ScanParts(ReSplit(t), 1, <<>>), m)))

(* --------------------- specification of the collapser ------------------ *)
DedupeIdle ==
  /\ argv = <<>> /\ environ = <<>> /\ fs = {} /\ pc = "idle"
  /\ audio_path = "" /\ model_size = "" /\ language = ""
  /\ stderr = "original" /\ stdout = <<>> /\ exitCode = -1
  /\ loadCalls = <<>> /\ transcribeCalls = <<>> /\ exc = <<>>
  /\ result = [status |-> "none"]

InitDedupe ==
  /\ text \in BoundedTexts \cup ExampleTexts
  /\ max_repeats \in 0..MaxRepeats
  /\ out = <<>> /\ out2 = <<>> /\ dpc = "init"
  /\ DedupeIdle

\* one call _dedupe_repetitions(text, max_repeats)
Collapse ==
  /\ dpc = "init"
  /\ out' = _dedupe_repetitions(text, max_repeats)
  /\ dpc' = "once"
  /\ UNCHANGED <<text, max_repeats, out2>>
  /\ UNCHANGED mvars

\* a second call on the first call's output
CollapseAgain ==
  /\ dpc = "once"
  /\ out2' = _dedupe_repetitions(out, max_repeats)
  /\ dpc' = "twice"
  /\ UNCHANGED <<text, max_repeats, out>>
  /\ UNCHANGED mvars

NextDedupe == Collapse \/ CollapseAgain

SpecDedupe == InitDedupe /\ [][NextDedupe]_vars

(* ------------------------- the command line ---------------------------- *)
ProgramName == "whisper_service.py"
Paths == {"a.wav", "b.wav", ""}
ModelArgs == {"tiny"}
LanguageArgs == {"", "fr"}
EnvNames == {"WHISPER_MODEL", "WHISPER_LANGUAGE"}
EnvModels == {"small"}
EnvLanguages == {"", "de"}

\* sys.argv: the program name, then up to three positional arguments
ArgvChoices ==
  {<<ProgramName>>}
  \cup {<<ProgramName, p>> : p \in Paths}
  \cup {<<ProgramName, p, ms>> : p \in Paths, ms \in ModelArgs}
  \cup {<<ProgramName, p, ms, lg>> : p \in Paths, ms \in ModelArgs, lg \in LanguageArgs}

\* os.environ restricted to the two variables the program reads
EnvironChoices ==
  {e \in UNION {[D -> EnvModels \cup EnvLanguages] : D \in SUBSET EnvNames} :
     /\ "WHISPER_MODEL" \in DOMAIN e => e["WHISPER_MODEL"] \in EnvModels
     /\ "WHISPER_LANGUAGE" \in DOMAIN e => e["WHISPER_LANGUAGE"] \in EnvLanguages}

\* os.getenv(name, default)
GetEnv(env, name, default) == IF name \in DOMAIN env THEN env[name] ELSE default

\* os.path.exists(path)
PathExistsAlways(path, files) == TRUE

PathExists(path, files) == path \in files

\* sys.argv[k] with Python's 0-based index
Arg(k) == argv[k + 1]

\* what the external engine can raise: subclasses of Exception
ExceptionSubclasses == {"RuntimeError", "ValueError", "MemoryError", "OSError"}
EngineErrors ==
  { [cls |-> "RuntimeError", msg |-> "Model not found"],
    [cls |-> "ValueError", msg |-> "Unsupported language"],
    [cls |-> "MemoryError", msg |-> "out of memory"] }

\* result['text'] values the engine can return
RawA3B == <<" ", "a", ".", " ", "a", ".", " ", "A", ".", " ", "b", ".">>
RawTexts == {<<>>, RawA3B, Hello3}

\* except Exception as e
CatchesRuntimeErrorOnly(cls) == cls = "RuntimeError"

Catches(cls) == cls \in ExceptionSubclasses

\* {'text': '', 'status': 'error', 'error': str(e)}
ErrorResult(e) == [text |-> <<>>, status |-> "error", error |-> <<e.msg>>]

\* max_repeats=2 at the call site in transcribe_audio
CallMaxRepeats == 2

\* {'text': cleaned_text, 'status': 'success'}
SuccessResult(raw) ==
  [text |-> _dedupe_repetitions(Strip(raw), CallMaxRepeats), status |-> "success"]

\* sys.exit(1): the process ends there
PcAfterSysExitFallThrough == "call"

PcAfterSysExit == "exited"

MainIdle ==
  /\ text = <<>> /\ max_repeats = CallMaxRepeats
  /\ out = <<>> /\ out2 = <<>> /\ dpc = "idle"

InitMain ==
  /\ argv \in ArgvChoices
  /\ environ \in EnvironChoices
  /\ fs \in SUBSET (Paths \ {""})
  /\ pc = "start"
  /\ audio_path = "" /\ model_size = "" /\ language = ""
  /\ stderr = "original" /\ stdout = <<>> /\ exitCode = -1
  /\ loadCalls = <<>> /\ transcribeCalls = <<>> /\ exc = <<>>
  /\ result = [status |-> "none"]
  /\ MainIdle

\* if len(sys.argv) < 2: print error; sys.exit(1)
MainNoArg ==
  /\ pc = "start"
  /\ Len(argv) < 2
  /\ stdout' = Append(stdout, [error |-> <<"No audio file provided">>])
  /\ exitCode' = 1
  /\ pc' = PcAfterSysExit
  /\ UNCHANGED <<argv, environ, fs, audio_path, model_size, language,
                 stderr, loadCalls, transcribeCalls, exc, result>>
  /\ UNCHANGED dvars

\* audio_path, model_size, language from argv and the environment
MainReadArgs ==
  /\ pc = "start"
  /\ Len(argv) >= 2
  /\ audio_path' = Arg(1)
  /\ model_size' = IF Len(argv) > 2 THEN Arg(2)
                   ELSE GetEnv(environ, "WHISPER_MODEL", "base.en")
  /\ language' = IF Len(argv) > 3 THEN Arg(3)
                 ELSE GetEnv(environ, "WHISPER_LANGUAGE", "en")
  /\ pc' = "check"
  /\ UNCHANGED <<argv, environ, fs, stderr, stdout, exitCode,
                 loadCalls, transcribeCalls, exc, result>>
  /\ UNCHANGED dvars

\* if not os.path.exists(audio_path): print error; sys.exit(1)
MainFileNotFound ==
  /\ pc = "check"
  /\ ~PathExists(audio_path, fs)
  /\ stdout' = Append(stdout, [error |-> <<"File not found: ", audio_path>>])
  /\ exitCode' = 1
  /\ pc' = PcAfterSysExit
  /\ UNCHANGED <<argv, environ, fs, audio_path, model_size, language,
                 stderr, loadCalls, transcribeCalls, exc, result>>
  /\ UNCHANGED dvars

\* the file exists: main calls transcribe_audio
MainCall ==
  /\ pc = "check"
  /\ PathExists(audio_path, fs)
  /\ pc' = "call"
  /\ UNCHANGED <<argv, environ, fs, audio_path, model_size, language,
                 stderr, stdout, exitCode, loadCalls, transcribeCalls, exc, result>>
  /\ UNCHANGED dvars

\* sys.stderr = open(os.devnull, 'w'), inside the try
RedirectStderr ==
  /\ pc = "call"
  /\ \E opened \in BOOLEAN :
       IF opened
         THEN /\ stderr' = "devnull"
              /\ pc' = "load"
              /\ exc' = exc
         ELSE /\ stderr' = stderr
              /\ pc' = "except"
              /\ exc' = <<[cls |-> "OSError", msg |-> "cannot open devnull", src |-> "open"]>>
  /\ UNCHANGED <<argv, environ, fs, audio_path, model_size, language,
                 stdout, exitCode, loadCalls, transcribeCalls, result>>
  /\ UNCHANGED dvars

\* model = whisper.load_model(model_size)
LoadModel ==
  /\ pc = "load"
  /\ loadCalls' = Append(loadCalls, model_size)
  /\ \/ /\ pc' = "transcribe"
        /\ exc' = exc
     \/ \E e \in EngineErrors :
          /\ exc' = <<[cls |-> e.cls, msg |-> e.msg, src |-> "load_model"]>>
          /\ pc' = "except"
  /\ UNCHANGED <<argv, environ, fs, audio_path, model_size, language,
                 stderr, stdout, exitCode, transcribeCalls, result>>
  /\ UNCHANGED dvars

\* model.transcribe(...) returns; stderr is restored, the text is stripped
\* and collapsed, and transcribe_audio returns the success result
TranscribeOk ==
  /\ pc = "transcribe"
  /\ transcribeCalls' = Append(transcribeCalls,
                               [audio |-> audio_path, language |-> language])
  /\ \E raw \in RawTexts : result' = SuccessResult(raw)
  /\ stderr' = "original"
  /\ pc' = "print"
  /\ UNCHANGED <<argv, environ, fs, audio_path, model_size, language,
                 stdout, exitCode, loadCalls, exc>>
  /\ UNCHANGED dvars

\* model.transcribe(...) raises
TranscribeRaise ==
  /\ pc = "transcribe"
  /\ transcribeCalls' = Append(transcribeCalls,
                               [audio |-> audio_path, language |-> language])
  /\ \E e \in EngineErrors :
       exc' = <<[cls |-> e.cls, msg |-> e.msg, src |-> "transcribe"]>>
  /\ pc' = "except"
  /\ UNCHANGED <<argv, environ, fs, audio_path, model_size, language,
                 stderr, stdout, exitCode, loadCalls, result>>
  /\ UNCHANGED dvars

\* except Exception as e: return the error result.  exc keeps the exception
\* that was raised.  An exception the clause does not catch ends the
\* process with a traceback and exit code 1.
ExceptHandler ==
  /\ pc = "except"
  /\ IF Catches(exc[1].cls)
       THEN /\ result' = ErrorResult(exc[1])
            /\ pc' = "print"
            /\ exitCode' = exitCode
       ELSE /\ result' = result
            /\ pc' = "exited"
            /\ exitCode' = 1
  /\ UNCHANGED <<argv, environ, fs, audio_path, model_size, language,
                 stderr, stdout, loadCalls, transcribeCalls, exc>>
  /\ UNCHANGED dvars

\* print(json.dumps(result)); the interpreter then exits with code 0
MainPrint ==
  /\ pc = "print"
  /\ stdout' = Append(stdout, result)
  /\ exitCode' = 0
  /\ pc' = "exited"
  /\ UNCHANGED <<argv, environ, fs, audio_path, model_size, language,
                 stderr, loadCalls, transcribeCalls, exc, result>>
  /\ UNCHANGED dvars

NextMain ==
  \/ MainNoArg
  \/ MainReadArgs
  \/ MainFileNotFound
  \/ MainCall
  \/ RedirectStderr
  \/ LoadModel
  \/ TranscribeOk
  \/ TranscribeRaise
  \/ ExceptHandler
  \/ MainPrint

SpecMain == InitMain /\ [][NextMain]_vars

(* ------------- vocabulary of the properties (not the code) ------------- *)
IsBlank(s) == \A i \in 1..Len(s) : s[i] \in Whitespace

\* s without its leading and trailing whitespace
Trim(s) ==
  IF IsBlank(s) THEN <<>>
  ELSE LET solid == {i \in 1..Len(s) : s[i] \notin Whitespace}
           first == CHOOSE i \in solid : \A j \in solid : i <= j
           last == CHOOSE i \in solid : \A j \in solid : j <= i
       IN SubSeq(s, first, last)

\* s without any whitespace
NonWs(s) == SelectSeq(s, LAMBDA c : c \notin Whitespace)

TermPos(t) == {i \in 1..Len(t) : t[i] \in Terminators}

RECURSIVE Ascending(_)
Ascending(S) ==
  IF S = {} THEN <<>>
  ELSE LET lo == CHOOSE x \in S : \A y \in S : x <= y
       IN <<lo>> \o Ascending(S \ {lo})

\* the sentences of t: each non-blank body, trimmed, with its terminator;
\* a non-blank fragment after the last terminator is a sentence without one
SentencesOf(t) ==
  LET ends == Ascending(TermPos(t) \cup {Len(t) + 1})
      startOf(e) == IF \E p \in TermPos(t) : p < e
                      THEN 1 + CHOOSE p \in TermPos(t) :
                                 p < e /\ \A q \in TermPos(t) : q < e => q <= p
                      ELSE 1
      bodyOf(e) == Trim(SubSeq(t, startOf(e), e - 1))
      termOf(e) == IF e <= Len(t) THEN <<t[e]>> ELSE <<>>
      kept == SelectSeq(ends, LAMBDA e : bodyOf(e) # <<>>)
  IN [k \in 1..Len(kept) |-> bodyOf(kept[k]) \o termOf(kept[k])]

EqualIgnoringCase(a, b) ==
  /\ Len(a) = Len(b)
  /\ \A i \in 1..Len(a) : LowerChar(a[i]) = LowerChar(b[i])

\* some m+1 consecutive sentences of ss are equal ignoring case
HasRunLongerThan(ss, m) ==
  \E k \in 1..(Len(ss) - m) : \A l \in k..(k + m) : EqualIgnoringCase(ss[l], ss[k])

\* the place where the maximal run containing sentence k starts
RunStart(ss, k) ==
  CHOOSE j \in 1..k :
    /\ \A l \in j..k : EqualIgnoringCase(ss[l], ss[k])
    /\ j = 1 \/ ~EqualIgnoringCase(ss[j - 1], ss[k])

RECURSIVE Spaced(_, _)
Spaced(ss, k) ==
  IF k > Len(ss) THEN <<>>
  ELSE (IF k = 1 THEN <<>> ELSE <<" ">>) \o ss[k] \o Spaced(ss, k + 1)

\* the reference result: per maximal run, the run's first sentence
\* min(count, m) times, in order, separated by single spaces
Reference(t, m) ==
  LET ss == SentencesOf(t)
      places == Ascending({k \in 1..Len(ss) : k - RunStart(ss, k) + 1 <= m})
  IN Spaced([n \in 1..Len(places) |-> ss[RunStart(ss, places[n])]], 1)

HasStrayTerminator(t) == Cardinality(TermPos(t)) > Len(SentencesOf(t))

HasTrailingFragment(t) ==
  /\ ~IsBlank(t)
  /\ Trim(t)[Len(Trim(t))] \notin Terminators

HasMixedCaseRun(t) ==
  LET ss == SentencesOf(t)
  IN \E k \in 1..(Len(ss) - 1) :
       EqualIgnoringCase(ss[k], ss[k + 1]) /\ ss[k] # ss[k + 1]

Collapsed == dpc \in {"once", "twice"}

(* ------------------------------ claims --------------------------------- *)
\* C1: for max_repeats >= 1 the output, split into sentences, never has
\* more than max_repeats consecutive sentences equal ignoring case.
C1_BoundedRuns ==
  (Collapsed /\ max_repeats >= 1)
    => ~HasRunLongerThan(SentencesOf(out), max_repeats)

C1_Witness ==
  /\ dpc = "once"
  /\ max_repeats = 2
  /\ HasRunLongerThan(SentencesOf(text), max_repeats)
  /\ out # <<>>

\* C2: the collapser is idempotent: a second call on the output of the
\* first returns that output unchanged.
C2_Idempotent == dpc = "twice" => out2 = out

C2_Witness ==
  /\ dpc = "twice"
  /\ max_repeats >= 1
  /\ HasStrayTerminator(text)
  /\ HasTrailingFragment(text)
  /\ HasMixedCaseRun(text)
  /\ HasRunLongerThan(SentencesOf(text), max_repeats)
  /\ out2 = out
  /\ out # text

\* C3 as stated: "Hi. hi. HI. Bye." with max_repeats = 2 gives
\* "Hi. hi. Bye.", each kept occurrence in its own casing.
C3_Original ==
  (Collapsed /\ text = HiHiHIBye /\ max_repeats = 2) => out = HiLowerBye

\* C3 amended: every sentence of the output is, character for character,
\* the first sentence of a run of the input; a text that is one run longer
\* than max_repeats gives its first sentence max_repeats times; and
\* "Hi. hi. HI. Bye." with max_repeats = 2 gives "Hi. Hi. Bye.".
C3_FirstCasing ==
  (Collapsed /\ max_repeats >= 1)
    => /\ LET ins == SentencesOf(text)
              outs == SentencesOf(out)
          IN \A k \in 1..Len(outs) :
               \E j \in 1..Len(ins) : RunStart(ins, j) = j /\ ins[j] = outs[k]
       /\ LET ins == SentencesOf(text)
          IN (Len(ins) > max_repeats /\ RunStart(ins, Len(ins)) = 1)
               => SentencesOf(out) = [k \in 1..max_repeats |-> ins[1]]
       /\ (text = HiHiHIBye /\ max_repeats = 2) => out = HiHiBye

C3_Witness ==
  /\ dpc = "once"
  /\ text = HiHiHIBye
  /\ max_repeats = 2
  /\ out = HiHiBye

\* C4: when no sentence of the input is immediately followed by an equal
\* one (ignoring case), the output is the input up to whitespace: no
\* non-whitespace character, terminators included, is removed or added.
C4_Claim ==
  (Collapsed /\ max_repeats >= 1 /\ ~HasRunLongerThan(SentencesOf(text), 1))
    => NonWs(out) = NonWs(text)

\* C5: once transcribe_audio has returned, sys.stderr is the original
\* stream again, on the normal and on the exceptional path.
C5_Claim == pc \in {"print", "exited"} => stderr = "original"

EngineRaised == exc # <<>> /\ exc[1].src \in {"load_model", "transcribe"}

\* C6: an exception raised by load_model or transcribe does not leave
\* transcribe_audio; the call returns {text: '', status: 'error',
\* error: <message>} after one attempt, with no retry.
C6_ErrorResult ==
  /\ Len(loadCalls) <= 1
  /\ Len(transcribeCalls) <= 1
  /\ (EngineRaised /\ pc \in {"print", "exited"})
       => /\ result = [text |-> <<>>, status |-> "error", error |-> <<exc[1].msg>>]
          /\ pc = "exited" => (stdout = <<result>> /\ exitCode = 0)

C6_Witness ==
  /\ pc = "exited"
  /\ exc # <<>>
  /\ exc[1].src = "transcribe"
  /\ exc[1].cls = "MemoryError"
  /\ stdout = <<[text |-> <<>>, status |-> "error", error |-> <<"out of memory">>]>>

\* C7: exactly one JSON document is on standard output when the process
\* has ended, and never more than one before.
C7_ExactlyOne ==
  /\ Len(stdout) <= 1
  /\ pc = "exited" => Len(stdout) = 1

C7_Witness ==
  /\ pc = "exited"
  /\ Len(stdout) = 1
  /\ Len(transcribeCalls) = 1
  /\ exc = <<>>

ArgMissing == Len(argv) < 2

FileMissing == Len(argv) >= 2 /\ argv[2] \notin fs

\* C8: exit code 1 exactly when the argument is missing or the path does
\* not exist; then the JSON has the single key error with the stated
\* message and the engine is never invoked; otherwise the exit code is 0
\* and the JSON has the keys text and status.
C8_ExitCodes ==
  /\ (ArgMissing \/ FileMissing) => (loadCalls = <<>> /\ transcribeCalls = <<>>)
  /\ pc = "exited" =>
       /\ exitCode = 1 <=> (ArgMissing \/ FileMissing)
       /\ ArgMissing => stdout = <<[error |-> <<"No audio file provided">>]>>
       /\ FileMissing => stdout = <<[error |-> <<"File not found: ", argv[2]>>]>>
       /\ ~(ArgMissing \/ FileMissing)
            => /\ exitCode = 0
               /\ Len(stdout) = 1
               /\ {"text", "status"} \subseteq DOMAIN stdout[1]

C8_Witness ==
  /\ pc = "exited"
  /\ exitCode = 1
  /\ Len(argv) = 4
  /\ stdout = <<[error |-> <<"File not found: ", "b.wav">>]>>

\* C9: the language handed to the engine is the third argument when given
\* and non-empty, else WHISPER_LANGUAGE when set, else "en"; it is never
\* empty.
C9_Claim ==
  \A k \in 1..Len(transcribeCalls) :
    /\ transcribeCalls[k].language =
         (IF Len(argv) > 3 /\ argv[4] # "" THEN argv[4]
          ELSE GetEnv(environ, "WHISPER_LANGUAGE", "en"))
    /\ transcribeCalls[k].language # ""

\* C10: for max_repeats >= 1 the result is the reference result; empty
\* input gives empty output, text without terminator is one sentence, and
\* the "Hello world." example gives two "Hello world." and "Goodbye.".
C10_Reference ==
  (Collapsed /\ max_repeats >= 1)
    => /\ out = Reference(text, max_repeats)
       /\ text = <<>> => out = <<>>
       /\ TermPos(text) = {} => out = Trim(text)
       /\ (text = Hello3 /\ max_repeats = 2) => out = Hello2

C10_Witness ==
  /\ dpc = "once"
  /\ text = Hello3
  /\ max_repeats = 2
  /\ out = Hello2

====
